---------------------------- MODULE Spec2Model ----------------------------
(***************************************************************************)
(* Selective-retransmission overlay (src/wfb-retransmit): the client of    *)
(* client.c (sequence tracker, retransmit requester) and the server of     *)
(* server.c (forwarder with ring-buffer cache, retransmit responder).      *)
(*                                                                         *)
(* Threads are modelled at the granularity of their critical sections:     *)
(* every step is either one section held under a mutex or one system call  *)
(* (the responder's section contains the sendto calls of its loop).        *)
(* The wall clock is a variable in milliseconds; time(NULL) is its whole   *)
(* seconds.  SpecLocks alone follows the threads at the finer grain of     *)
(* their pthread_mutex_lock and pthread_mutex_unlock calls.                *)
(***************************************************************************)
EXTENDS Integers, Sequences, FiniteSets, TLC

(***************************************************************************)
(* Program constants.                                                      *)
(***************************************************************************)
MAX_MISSING_PACKETS == 100
MAX_RETRANSMIT_QUEUE_SIZE == 100
MAX_BATCH_SIZE == 20
\* time(NULL) * 1000: milliseconds in one second of the time() clock
MsPerSec == 1000
\* load_config's default buf_size
buf_size == 4096
\* load_config's default hold_duration_ms
DefaultHold == 4
\* sizeof(int)
IntBytes == 4

(***************************************************************************)
(* Bounds of the model.                                                    *)
(***************************************************************************)
\* data datagrams carry sequence numbers 0 .. MaxSeq
MaxSeq == 2
\* the client's receive loop handles at most MaxRecv datagrams while the clock runs
MaxRecv == 2
\* the requester starts a new tick only while fewer requests were issued
\* (in the specifications without fairness)
MaxIssued == 2
\* the wall clock advances in half seconds up to MaxHalfSecs of them
MaxHalfSecs == 2
\* request datagrams in flight towards the server
MaxInFlight == 1
\* entries the tracker already holds at the start of a burst run
PreFill == 99
\* config.buffer_size, the capacity of the server's ring buffer
MaxCap == 3
\* the forwarder handles at most MaxArrivals data datagrams
MaxArrivals == 4
\* the responder receives a request only while it counted fewer requested sequences
MaxServed == 2
\* a request datagram made up for the server carries 1 .. MaxReqLen sequences
MaxReqLen == 2

\* the codec run tries every list of 1 .. MaxCodecLen sequence numbers
MaxCodecLen == 2
\* the receive loop handles at most MaxLate datagrams when the clock stands still
MaxLate == 4
\* recvfrom calls that fail in a run
MaxRecvErrors == 1
\* under fairness the requester issues at most MaxRate requests per half second
MaxRate == 40

\* the forwarder's arrival counter is modelled SeqBits wide (an int in server.c)
SeqBits == 4

\* the null pointer, distinct from every datagram buffer
NULL == [null |-> TRUE]

VARIABLES
    \* ---- environment
    clock,                  \* wall clock, milliseconds
    shutdown,               \* the process has been asked to terminate
    req_net,                \* request datagrams in flight, client -> server
    \* ---- client.c
    hold_duration_ms,       \* config->hold_duration_ms
    missing_packets,        \* missing_packets[0 .. missing_count-1]
    cl_packets_received,    \* client.c packets_received
    cl_packets_retransmitted, \* client.c packets_retransmitted
    last_seq,               \* receive_packets: last_seq
    rx_pc, rx_seq, rx_i,    \* receive_packets: position, seq, loop index i
    rq_pc,                  \* request_missing_packets: position
    request, batch_size,    \* request_missing_packets: request[], batch_size
    \* ---- history, never read by the program
    observed,               \* the sequence numbers of the datagrams received, in order
    rx_t, rx_room,          \* wall clock and free entries when the current gap was detected
    rx_new,                 \* entries the current gap's loop has inserted
    unrequested,            \* gap sequences detected and in no request sent since
    \* ---- environment of the server
    data_net,               \* data datagrams in flight, server -> consumer and client
    \* ---- server.c
    buffer_size,            \* config.buffer_size
    buffer,                 \* buffer[0 .. buffer_size-1]
    sv_seq,                 \* receive_and_forward: seq
    sv_packets_received,    \* server.c packets_received
    sv_packets_retransmitted, \* server.c packets_retransmitted
    fw_pc, recv_buf,        \* receive_and_forward: position, recv_buf with recv_len
    rs_pc, buf, count,      \* handle_retransmit_requests: position, buf[], count
    rs_recv_len,            \* handle_retransmit_requests: recv_len
    \* ---- history, never read by the program
    resp_out,               \* the sendto calls of the latest request handled
    retx_sent,              \* how many retransmission datagrams were sent, per sequence
    \* ---- history, never read by the program
    recv_failed,            \* the recvfrom calls that failed: thread and errno, in order
    \* ---- the threads seen at the grain of their mutex operations
    lock_pc,                \* per thread, the position in its iteration
    holds                   \* per thread, the mutexes it holds

cvars == <<hold_duration_ms, missing_packets, cl_packets_received,
           cl_packets_retransmitted, last_seq, rx_pc, rx_seq, rx_i, rq_pc,
           request, batch_size, observed, rx_t, rx_room, rx_new, unrequested>>
sstate == <<buffer_size, buffer, sv_seq, sv_packets_received,
            sv_packets_retransmitted, fw_pc, recv_buf, rs_pc, buf, count,
            resp_out, retx_sent>>
svars == <<data_net, sstate>>
lvars == <<lock_pc, holds>>
vars == <<clock, shutdown, req_net, cvars, svars, rs_recv_len, recv_failed, lvars>>

missing_count == Len(missing_packets)

(***************************************************************************)
(* The mutex operations of the six threads (pthread_mutex_lock and         *)
(* pthread_mutex_unlock, with the blocking calls between them), one        *)
(* iteration of each thread's loop in program order.  skip > 0 marks the   *)
(* start of a conditional block of that many operations.  An "access"      *)
(* operation is the thread's reads and writes of the named structure: the  *)
(* missing-set (missing_packets and missing_count), the ring buffer slots, *)
(* the forwarder's arrival counter seq.                                    *)
(***************************************************************************)
Threads == {"cl_rx", "cl_rq", "cl_st", "sv_fw", "sv_rs", "sv_st"}

Op(kind, what, n) == [op |-> kind, on |-> what, skip |-> n]

\* client.c receive_packets: recvfrom, then (unless it failed) the stats section
\* and, when a gap shows, add_missing_packet
RxLocks ==
    <<Op("io", "recvfrom", 0),
      Op("lock", "cl_stats_mutex", 5), Op("unlock", "cl_stats_mutex", 0),
      Op("lock", "cl_missing_mutex", 3), Op("access", "missing_set", 0),
      Op("unlock", "cl_missing_mutex", 0)>>

\* client.c request_missing_packets: the collection, the send with its stats
\* section when the batch is not empty, the sleep, remove_expired_packets
RqLocks ==
    <<Op("lock", "cl_missing_mutex", 0), Op("access", "missing_set", 0),
      Op("unlock", "cl_missing_mutex", 0),
      Op("io", "sendto", 3),
      Op("lock", "cl_stats_mutex", 0), Op("unlock", "cl_stats_mutex", 0),
      Op("io", "usleep", 0),
      Op("lock", "cl_missing_mutex", 0), Op("access", "missing_set", 0),
      Op("unlock", "cl_missing_mutex", 0)>>

\* client.c print_statistics
ClStatLocks ==
    <<Op("io", "usleep", 0),
      Op("lock", "cl_stats_mutex", 2), Op("unlock", "cl_stats_mutex", 0)>>

\* server.c receive_and_forward: the store into the slot and seq++ inside the
\* buffer section, the forward, then seq - 1 read by the verbose printf
FwLocks ==
    <<Op("io", "recvfrom", 0),
      Op("lock", "sv_stats_mutex", 8), Op("unlock", "sv_stats_mutex", 0),
      Op("lock", "sv_buffer_mutex", 0),
      Op("access", "buffer", 0), Op("access", "seq", 0),
      Op("unlock", "sv_buffer_mutex", 0),
      Op("io", "sendto", 0),
      Op("access", "seq", 1)>>

\* server.c handle_retransmit_requests: the sendto is inside the buffer section
RsLocks ==
    <<Op("io", "recvfrom", 0),
      Op("lock", "sv_stats_mutex", 6), Op("unlock", "sv_stats_mutex", 0),
      Op("lock", "sv_buffer_mutex", 0),
      Op("access", "buffer", 0),
      Op("io", "sendto", 1),
      Op("unlock", "sv_buffer_mutex", 0)>>

\* server.c print_statistics
SvStatLocks ==
    <<Op("io", "usleep", 0),
      Op("lock", "sv_stats_mutex", 2), Op("unlock", "sv_stats_mutex", 0)>>

Program(t) ==
    CASE t = "cl_rx" -> RxLocks
      [] t = "cl_rq" -> RqLocks
      [] t = "cl_st" -> ClStatLocks
      [] t = "sv_fw" -> FwLocks
      [] t = "sv_rs" -> RsLocks
      [] t = "sv_st" -> SvStatLocks

\* the operation thread t is at
NextOp(t) == Program(t)[lock_pc[t]]

\* the position after p, back at the head of the loop after the last operation
Wrap(t, p) == IF p > Len(Program(t)) THEN 1 ELSE p

\* pthread_mutex_lock that never blocks
Waiting_Never(t) == FALSE

\* thread t is in pthread_mutex_lock on a mutex some thread holds
Waiting(t) ==
    /\ NextOp(t).op = "lock"
    /\ \E u \in Threads : NextOp(t).on \in holds[u]

\* every thread at the head of its loop, every mutex free
LocksFree ==
    /\ lock_pc = [t \in Threads |-> 1]
    /\ holds = [t \in Threads |-> {}]

\* thread t completes the operation it is at
LockStep(t) ==
    /\ ~Waiting(t)
    /\ holds' = [holds EXCEPT ![t] =
                    IF NextOp(t).op = "lock" THEN @ \cup {NextOp(t).on}
                    ELSE IF NextOp(t).op = "unlock" THEN @ \ {NextOp(t).on}
                    ELSE @]
    /\ lock_pc' = [lock_pc EXCEPT ![t] = Wrap(t, @ + 1)]
    /\ UNCHANGED <<clock, shutdown, req_net, cvars, svars, rs_recv_len, recv_failed>>

\* thread t does not enter the conditional block it is at
LockSkip(t) ==
    /\ NextOp(t).skip > 0
    /\ lock_pc' = [lock_pc EXCEPT ![t] = Wrap(t, @ + NextOp(t).skip)]
    /\ UNCHANGED <<clock, shutdown, req_net, cvars, svars, rs_recv_len, recv_failed, holds>>

(***************************************************************************)
(* time(NULL) and the millisecond value both functions derive from it.     *)
(***************************************************************************)
Time(c) == c \div MsPerSec
HalfSec == MsPerSec \div 2

\* add_missing_packet's expiration_time
ExpirationTime(c, hold) == Time(c) * MsPerSec + hold

\* current_time taken in seconds while expiration_time is in milliseconds
CurrentTime_Seconds(c) == Time(c)

\* remove_expired_packets' current_time
CurrentTime(c) == Time(c) * MsPerSec

(***************************************************************************)
(* Wire codec of the request datagram.                                     *)
(***************************************************************************)
\* a 32-bit int v as an unsigned value has the sign bit 2^31 and these low 31 bits
Low31(v) == IF v >= 0 THEN v ELSE (v + 2147483647) + 1
SignBit(v) == IF v < 0 THEN 128 ELSE 0
\* the int stored without htonl on a little-endian host: least significant byte first
Htonl_HostOrder(v) ==
    [k \in 1..IntBytes |->
        IF k = IntBytes THEN (Low31(v) \div (2 ^ 24)) + SignBit(v)
        ELSE (Low31(v) \div (2 ^ (8 * (k - 1)))) % 256]

\* htonl(seq) stored through an int pointer: the four bytes, most significant first
Htonl(v) ==
    [k \in 1..IntBytes |->
        IF k = 1 THEN (Low31(v) \div (2 ^ 24)) + SignBit(v)
        ELSE (Low31(v) \div (2 ^ (8 * (IntBytes - k)))) % 256]

\* ntohl(*(int *)p) assigned to an int: four bytes, most significant first
Ntohl(b) ==
    LET low == ((b[1] % 128) * (2 ^ 24)) + (b[2] * (2 ^ 16)) + (b[3] * (2 ^ 8)) + b[4]
    IN IF b[1] >= 128 THEN (low - 2147483647) - 1 ELSE low

\* request[0] = (char)batch_size
CountByte(n) == n % 256

\* the sequence numbers a request datagram of 1 + 4n bytes carries
DecodeSeqs(d) ==
    [k \in 1..((Len(d) - 1) \div IntBytes) |->
        Ntohl(SubSeq(d, 2 + IntBytes * (k - 1), 1 + IntBytes * k))]

Range(f) == {f[x] : x \in DOMAIN f}
Max(a, b) == IF a >= b THEN a ELSE b
\* every element is its predecessor + 1
InOrder(o) == \A k \in 2..Len(o) : o[k] = o[k - 1] + 1
\* every element is greater than its predecessor
Increasing(o) == \A k \in 2..Len(o) : o[k] > o[k - 1]
\* the sequence numbers an increasing run of datagrams has skipped
GapSeqs(o) == IF o = <<>> THEN {} ELSE (o[1]..o[Len(o)]) \ Range(o)
Min(a, b) == IF a <= b THEN a ELSE b

\* the datagram sent in batch_size * sizeof(int) bytes, the count byte not counted
RequestDatagram_NoCountByte(req, bs) ==
    SubSeq(<<CountByte(bs)>> \o req, 1, bs * IntBytes)

\* the datagram sendto() puts on the wire: 1 + batch_size * sizeof(int) bytes
RequestDatagram(req, bs) == <<CountByte(bs)>> \o SubSeq(req, 1, bs * IntBytes)

\* a UDP socket queue: a datagram sent while the queue is full is lost
NetSend(net, d) == IF Len(net) < MaxInFlight THEN Append(net, d) ELSE net

(***************************************************************************)
(* client.c: the missing-set.                                              *)
(* An entry carries, besides the two fields of MissingPacket, the wall     *)
(* clock at which it was inserted (history, never read by the program).    *)
(***************************************************************************)
MissingPacket(seq, c, hold) ==
    [sequence_number |-> seq, expiration_time |-> ExpirationTime(c, hold), created |-> c]

\* add_missing_packet without its capacity test
AddMissingPacket_NoCap(arr, seq, c, hold) == Append(arr, MissingPacket(seq, c, hold))

\* add_missing_packet overwriting the newest entry when the array is full
AddMissingPacket_Evict(arr, seq, c, hold) ==
    IF Len(arr) < MAX_MISSING_PACKETS
    THEN Append(arr, MissingPacket(seq, c, hold))
    ELSE [arr EXCEPT ![Len(arr)] = MissingPacket(seq, c, hold)]

\* add_missing_packet: the array after the call
AddMissingPacket(arr, seq, c, hold) ==
    IF Len(arr) < MAX_MISSING_PACKETS
    THEN Append(arr, MissingPacket(seq, c, hold))
    ELSE arr

\* the loop stepping past the entry it moved into the vacated position
RECURSIVE RemoveLoop_Advance(_, _, _)
RemoveLoop_Advance(arr, i, now) ==
    IF i > Len(arr) THEN arr
    ELSE IF arr[i].expiration_time <= now
         THEN RemoveLoop_Advance(SubSeq([arr EXCEPT ![i] = arr[Len(arr)]], 1, Len(arr) - 1),
                                 i + 1, now)
         ELSE RemoveLoop_Advance(arr, i + 1, now)

\* remove_expired_packets: the while loop from index i (1-based here)
RECURSIVE RemoveLoop(_, _, _)
RemoveLoop(arr, i, now) ==
    IF i > Len(arr) THEN arr
    ELSE IF arr[i].expiration_time <= now
         THEN RemoveLoop(SubSeq([arr EXCEPT ![i] = arr[Len(arr)]], 1, Len(arr) - 1), i, now)
         ELSE RemoveLoop(arr, i + 1, now)

RemoveExpiredPackets(arr, c) == RemoveLoop(arr, 1, CurrentTime(c))

\* request_missing_packets: the collecting for loop from index i (1-based here);
\* the result is <<request bytes, batch_size>>
RECURSIVE CollectLoop(_, _, _, _)
CollectLoop(arr, i, req, bs) ==
    IF i <= Len(arr) /\ bs < MAX_BATCH_SIZE
    THEN IF bs < MAX_RETRANSMIT_QUEUE_SIZE
         THEN CollectLoop(arr, i + 1, req \o Htonl(arr[i].sequence_number), bs + 1)
         ELSE CollectLoop(arr, i + 1, req, bs)
    ELSE <<req, bs>>

\* the collecting loop with <= for < in its batch limit
RECURSIVE CollectLoop_OffByOne(_, _, _, _)
CollectLoop_OffByOne(arr, i, req, bs) ==
    IF i <= Len(arr) /\ bs <= MAX_BATCH_SIZE
    THEN CollectLoop_OffByOne(arr, i + 1, req \o Htonl(arr[i].sequence_number), bs + 1)
    ELSE <<req, bs>>

CollectBatch_OffByOne(arr) == CollectLoop_OffByOne(arr, 1, <<>>, 0)

\* the collecting loop started one entry too far
CollectBatch_SkipFirst(arr) == CollectLoop(arr, 2, <<>>, 0)

\* the loop taking the entries stored last instead of those stored first
CollectBatch_FromEnd(arr) ==
    CollectLoop(arr, Max(1, Len(arr) - MAX_BATCH_SIZE + 1), <<>>, 0)

CollectBatch(arr) == CollectLoop(arr, 1, <<>>, 0)

\* the condition of every thread's loop: while (1)
KeepRunning == TRUE

\* where a thread goes at the end of an iteration that began at pc
LoopTo(pc) == IF KeepRunning THEN pc ELSE "exit"

(***************************************************************************)
(* client.c: receive_packets, one datagram carrying sequence number seq.   *)
(***************************************************************************)
RxRecv(seq) ==
    /\ rx_pc = "recv"
    /\ rx_seq' = seq
    /\ cl_packets_received' = cl_packets_received + 1
    /\ observed' = Append(observed, seq)
    /\ rx_i' = last_seq + 1
    /\ rx_pc' = IF seq # last_seq + 1 THEN "add" ELSE "set"
    /\ rx_t' = clock
    /\ rx_room' = MAX_MISSING_PACKETS - missing_count
    /\ rx_new' = <<>>
    /\ UNCHANGED <<clock, req_net, hold_duration_ms, missing_packets,
                   cl_packets_retransmitted, last_seq, rq_pc, request, batch_size,
                   unrequested>>
    /\ UNCHANGED sstate
    /\ UNCHANGED <<shutdown, rs_recv_len, recv_failed, lvars>>

\* one iteration of the gap loop: add_missing_packet(i, hold_duration_ms)
RxAdd ==
    /\ rx_pc = "add"
    /\ rx_i < rx_seq
    /\ missing_packets' = AddMissingPacket(missing_packets, rx_i, clock, hold_duration_ms)
    /\ rx_i' = rx_i + 1
    /\ rx_new' = IF missing_packets' # missing_packets
                 THEN Append(rx_new, missing_packets'[Len(missing_packets')])
                 ELSE rx_new
    /\ unrequested' = unrequested \cup {rx_i}
    /\ UNCHANGED <<clock, req_net, hold_duration_ms, cl_packets_received,
                   cl_packets_retransmitted, last_seq, rx_pc, rx_seq, rq_pc,
                   request, batch_size, observed, rx_t, rx_room>>
    /\ UNCHANGED svars
    /\ UNCHANGED <<shutdown, rs_recv_len, recv_failed, lvars>>

\* last_seq advanced only when the sequence observed is higher
NextLastSeq_Highest(last, seq) == Max(last, seq)

\* last_seq = seq, whatever last_seq was
NextLastSeq(last, seq) == seq

\* last_seq = seq
RxSetLast ==
    /\ \/ rx_pc = "set"
       \/ rx_pc = "add" /\ rx_i >= rx_seq
    /\ last_seq' = NextLastSeq(last_seq, rx_seq)
    /\ rx_pc' = LoopTo("recv")
    /\ rx_t' = 0 /\ rx_room' = 0 /\ rx_new' = <<>>
    /\ UNCHANGED <<clock, req_net, hold_duration_ms, missing_packets,
                   cl_packets_received, cl_packets_retransmitted, rx_seq, rx_i,
                   rq_pc, request, batch_size, observed, unrequested>>
    /\ UNCHANGED svars
    /\ UNCHANGED <<shutdown, rs_recv_len, recv_failed, lvars>>

(***************************************************************************)
(* client.c: request_missing_packets, one tick in three steps.             *)
(***************************************************************************)
\* batch_size = 0 and the loop under missing_mutex
RqCollect ==
    /\ rq_pc = "collect"
    /\ LET r == CollectBatch(missing_packets)
       IN /\ request' = r[1]
          /\ batch_size' = r[2]
    /\ rq_pc' = "send"
    /\ UNCHANGED <<clock, req_net, hold_duration_ms, missing_packets,
                   cl_packets_received, cl_packets_retransmitted, last_seq,
                   rx_pc, rx_seq, rx_i, observed, rx_t, rx_room, rx_new, unrequested>>
    /\ UNCHANGED svars
    /\ UNCHANGED <<shutdown, rs_recv_len, recv_failed, lvars>>

\* the counter counting request datagrams instead of requested sequences
IssuedAfter_PerDatagram(issued, bs) == issued + 1

\* packets_retransmitted += batch_size
IssuedAfter(issued, bs) == issued + bs

\* if (batch_size > 0) { sendto; packets_retransmitted += batch_size }
RqSend ==
    /\ rq_pc = "send"
    /\ IF batch_size > 0
       THEN /\ req_net' = NetSend(req_net, RequestDatagram(request, batch_size))
            /\ cl_packets_retransmitted' = IssuedAfter(cl_packets_retransmitted, batch_size)
            /\ unrequested' = {}
       ELSE UNCHANGED <<req_net, cl_packets_retransmitted, unrequested>>
    /\ rq_pc' = "sleep"
    /\ UNCHANGED <<clock, hold_duration_ms, missing_packets, cl_packets_received,
                   last_seq, rx_pc, rx_seq, rx_i, request, batch_size, observed,
                   rx_t, rx_room, rx_new>>
    /\ UNCHANGED svars
    /\ UNCHANGED <<shutdown, rs_recv_len, recv_failed, lvars>>

\* usleep(1000) has returned; remove_expired_packets()
RqPurge ==
    /\ rq_pc = "sleep"
    /\ missing_packets' = RemoveExpiredPackets(missing_packets, clock)
    /\ rq_pc' = LoopTo("collect")
    /\ UNCHANGED <<clock, req_net, hold_duration_ms, cl_packets_received,
                   cl_packets_retransmitted, last_seq, rx_pc, rx_seq, rx_i,
                   request, batch_size, observed, rx_t, rx_room, rx_new, unrequested>>
    /\ UNCHANGED svars
    /\ UNCHANGED <<shutdown, rs_recv_len, recv_failed, lvars>>

(***************************************************************************)
(* Environment.                                                            *)
(***************************************************************************)
\* the wall clock advances
Tick ==
    /\ clock < MaxHalfSecs * HalfSec
    /\ clock' = clock + HalfSec
    /\ UNCHANGED <<req_net, cvars, svars>>
    /\ UNCHANGED <<shutdown, rs_recv_len, recv_failed, lvars>>

\* the process is asked to terminate; no code of either program reads this
SignalShutdown ==
    /\ ~shutdown
    /\ shutdown' = TRUE
    /\ UNCHANGED <<clock, req_net, cvars, svars, rs_recv_len, recv_failed, lvars>>

\* UDP loses the oldest request datagram in flight
NetLoseRequest ==
    /\ req_net # <<>>
    /\ req_net' = Tail(req_net)
    /\ UNCHANGED <<clock, cvars, svars>>
    /\ UNCHANGED <<shutdown, rs_recv_len, recv_failed, lvars>>

(***************************************************************************)
(* The client alone, from process start.                                   *)
(***************************************************************************)
HoldDurations == {DefaultHold, MsPerSec + HalfSec}

(***************************************************************************)
(* server.c: the ring buffer.  A slot's data is NULL or the recv_buf it    *)
(* points to: the datagram's content (the sequence number its leading      *)
(* bytes carry stands for all of its bytes) and the length received.       *)
(***************************************************************************)
Datagram(seq, len) == [seq |-> seq, len |-> len]

\* C's seq % buffer_size: the remainder has the sign of seq
CRem(a, b) == IF a >= 0 THEN a % b ELSE 0 - ((0 - a) % b)

BufferIndex(seq, size) == CRem(seq, size)

\* the critical section tagging the slot with its index instead of the sequence
StorePacket_TagIndex(buf_, size, seq, p) ==
    [buf_ EXCEPT ![BufferIndex(seq, size)] =
        [sequence_number |-> BufferIndex(seq, size), data |-> p]]

\* receive_and_forward's critical section: the buffer after storing recv_buf as seq
StorePacket(buf_, size, seq, p) ==
    [buf_ EXCEPT ![BufferIndex(seq, size)] = [sequence_number |-> seq, data |-> p]]

\* the slot test without the comparison of the stored sequence number
SlotMatches_Any(slot, seq) == TRUE

\* the slot test asking only whether the slot was ever written
SlotMatches_Occupied(slot, seq) == slot.data # NULL

\* the slot test of handle_retransmit_requests
SlotMatches(slot, seq) == slot.sequence_number = seq

\* sendto(sock_req, buffer[buffer_index].data, config->buf_size, ...): the call
RetransmitCall(slot, seq) == [seq |-> seq, data |-> slot.data, len |-> buf_size]

\* a sendto from a NULL buffer fails with EFAULT and puts nothing on the wire
Emitted(calls) == SelectSeq(calls, LAMBDA c : c.data # NULL)

\* buf[0], a plain char, read into the int count; char is signed on the x86 and
\* x86-64 builds of gcc and clang
SignedChar(b) == IF b >= 128 THEN b - 256 ELSE b

\* the datagram recvfrom() writes over the start of buf
Overlay(old, d) == d \o SubSeq(old, Len(d) + 1, Len(old))

\* the i-th sequence number of the request in buf (i from 1)
RequestedSeq(b, i) == Ntohl(SubSeq(b, 2 + IntBytes * (i - 1), 1 + IntBytes * i))

\* the lookup loop of handle_retransmit_requests from index i (1-based here):
\* the sendto calls it makes
RECURSIVE LookupLoop(_, _, _, _, _)
LookupLoop(b, n, i, slots, size) ==
    IF i <= n
    THEN LET seq == RequestedSeq(b, i)
             slot == slots[BufferIndex(seq, size)]
         IN (IF SlotMatches(slot, seq) THEN <<RetransmitCall(slot, seq)>> ELSE <<>>)
            \o LookupLoop(b, n, i + 1, slots, size)
    ELSE <<>>

\* the per-sequence count of datagrams sent, after the datagrams of calls
RECURSIVE CountSent(_, _)
CountSent(sent, calls) ==
    IF calls = <<>> THEN sent
    ELSE LET s == Head(calls).seq
         IN CountSent(IF s \in DOMAIN sent
                      THEN [sent EXCEPT ![s] = @ + 1]
                      ELSE sent @@ (s :> 1),
                      Tail(calls))

\* a request datagram carrying the sequence numbers of list
RECURSIVE EncodeSeqs(_)
EncodeSeqs(list) ==
    IF list = <<>> THEN <<>> ELSE Htonl(Head(list)) \o EncodeSeqs(Tail(list))

EncodeRequest(list) == RequestDatagram(EncodeSeqs(list), Len(list))

(***************************************************************************)
(* server.c: receive_and_forward, one datagram in three steps.             *)
(***************************************************************************)
\* the largest and the smallest value of a signed counter of SeqBits bits
SeqMax == 2^(SeqBits - 1) - 1

SeqMin == 0 - 2^(SeqBits - 1)

\* seq++ on the forwarder's int seq: past the largest value of the width the
\* two's-complement increment of the build gives the smallest one
NextSeq(s) == IF s = SeqMax THEN SeqMin ELSE s + 1

\* recvfrom() into a fresh recv_buf; packets_received++
FwRecv(d) ==
    /\ fw_pc = "recv"
    /\ recv_buf' = d
    /\ sv_packets_received' = sv_packets_received + 1
    /\ fw_pc' = "store"
    /\ UNCHANGED <<clock, req_net, cvars, data_net, buffer_size, buffer, sv_seq,
                   sv_packets_retransmitted, rs_pc, buf, count, resp_out, retx_sent>>
    /\ UNCHANGED <<shutdown, rs_recv_len, recv_failed, lvars>>

\* the critical section under buffer_mutex
FwStore ==
    /\ fw_pc = "store"
    /\ buffer' = StorePacket(buffer, buffer_size, sv_seq, recv_buf)
    /\ sv_seq' = NextSeq(sv_seq)
    /\ fw_pc' = "forward"
    /\ UNCHANGED <<clock, req_net, cvars, data_net, buffer_size, sv_packets_received,
                   sv_packets_retransmitted, recv_buf, rs_pc, buf, count, resp_out,
                   retx_sent>>
    /\ UNCHANGED <<shutdown, rs_recv_len, recv_failed, lvars>>

\* the datagram forwarded carrying the whole buffer instead of recv_len bytes
ForwardDatagram_FullBuffer(p) == Datagram(p.seq, buf_size)

\* the datagram of sendto(sock_forward, recv_buf, recv_len, ...)
ForwardDatagram(p) == Datagram(p.seq, p.len)

\* sendto(sock_forward, recv_buf, recv_len, ...)
FwForward ==
    /\ fw_pc = "forward"
    /\ data_net' = NetSend(data_net, ForwardDatagram(recv_buf))
    /\ fw_pc' = LoopTo("recv")
    /\ UNCHANGED <<clock, req_net, cvars, buffer_size, buffer, sv_seq,
                   sv_packets_received, sv_packets_retransmitted, recv_buf, rs_pc,
                   buf, count, resp_out, retx_sent>>
    /\ UNCHANGED <<shutdown, rs_recv_len, recv_failed, lvars>>

(***************************************************************************)
(* server.c: handle_retransmit_requests, one request in two steps.         *)
(***************************************************************************)
\* recvfrom() of the datagram d; count = buf[0]; packets_retransmitted += count
\* (the run follows the responder while its counter lies in 0 .. MaxServed - 1)
RsRecv(d) ==
    /\ rs_pc = "recv"
    /\ 0 <= sv_packets_retransmitted
    /\ sv_packets_retransmitted < MaxServed
    /\ Len(d) > 0
    /\ buf' = Overlay(buf, d)
    /\ rs_recv_len' = Len(d)
    /\ count' = SignedChar(d[1])
    /\ sv_packets_retransmitted' = sv_packets_retransmitted + SignedChar(d[1])
    /\ rs_pc' = "lookup"
    /\ UNCHANGED <<clock, cvars, data_net, buffer_size, buffer, sv_seq,
                   sv_packets_received, fw_pc, recv_buf, resp_out, retx_sent>>
    /\ UNCHANGED <<shutdown, recv_failed, lvars>>

\* the lookup loop under buffer_mutex, with its sendto calls
RsLookup ==
    /\ rs_pc = "lookup"
    /\ resp_out' = LookupLoop(buf, count, 1, buffer, buffer_size)
    /\ retx_sent' = CountSent(retx_sent, Emitted(resp_out'))
    /\ rs_pc' = LoopTo("recv")
    /\ UNCHANGED <<clock, req_net, cvars, data_net, buffer_size, buffer, sv_seq,
                   sv_packets_received, sv_packets_retransmitted, fw_pc, recv_buf,
                   buf, count>>
    /\ UNCHANGED <<shutdown, rs_recv_len, recv_failed, lvars>>

\* the consumer takes the oldest forwarded datagram, or UDP loses it
NetTakeData ==
    /\ data_net # <<>>
    /\ data_net' = Tail(data_net)
    /\ UNCHANGED <<clock, req_net, cvars, buffer_size, buffer, sv_seq,
                   sv_packets_received, sv_packets_retransmitted, fw_pc, recv_buf,
                   rs_pc, buf, count, resp_out, retx_sent>>
    /\ UNCHANGED <<shutdown, rs_recv_len, recv_failed, lvars>>

(***************************************************************************)
(* The server alone, from process start.  malloc() leaves the slots'       *)
(* sequence_number unset: all hold 0 or, by chance, each its own index.    *)
(***************************************************************************)
UnsetBuffers(size) ==
    {[k \in 0..(size - 1) |-> [sequence_number |-> 0, data |-> NULL]],
     [k \in 0..(size - 1) |-> [sequence_number |-> k, data |-> NULL]]}

ServerStart ==
    /\ data_net = <<>>
    /\ buffer_size = MaxCap
    /\ buffer \in UnsetBuffers(buffer_size)
    /\ sv_seq = 0
    /\ sv_packets_received = 0
    /\ sv_packets_retransmitted = 0
    /\ fw_pc = "recv" /\ recv_buf = NULL
    /\ rs_pc = "recv" /\ buf = <<>> /\ count = 0
    /\ resp_out = <<>>
    /\ retx_sent = <<>>

\* the client specifications run without a server
ServerAbsent ==
    /\ data_net = <<>>
    /\ buffer_size = 0
    /\ buffer = <<>>
    /\ sv_seq = 0
    /\ sv_packets_received = 0
    /\ sv_packets_retransmitted = 0
    /\ fw_pc = "recv" /\ recv_buf = NULL
    /\ rs_pc = "recv" /\ buf = <<>> /\ count = 0
    /\ resp_out = <<>>
    /\ retx_sent = <<>>

\* the server specification runs without a client
ClientAbsent ==
    /\ hold_duration_ms = DefaultHold
    /\ missing_packets = <<>>
    /\ cl_packets_received = 0
    /\ cl_packets_retransmitted = 0
    /\ last_seq = -1
    /\ rx_pc = "recv" /\ rx_seq = 0 /\ rx_i = 0
    /\ rq_pc = "collect"
    /\ request = <<>> /\ batch_size = 0
    /\ observed = <<>>
    /\ rx_t = 0 /\ rx_room = 0 /\ rx_new = <<>>
    /\ unrequested = {}

\* the lengths of data datagrams: the sequence number alone, or a full buffer
DataLengths == {IntBytes, buf_size}

\* the k-th datagram of the producer carries sequence number k
ProducerDatagrams == {Datagram(sv_packets_received, len) : len \in DataLengths}

\* the requests of a sender that misses a run of 1 .. MaxReqLen sequence numbers
RequestLists ==
    {[j \in 1..n |-> first + j - 1] : first \in 0..MaxArrivals, n \in 1..MaxReqLen}

\* datagrams of any other sender: a count byte of 0x80 alone, and 0x81 with one
\* sequence number
ForeignRequests == {<<128>>, <<129>> \o Htonl(0)}

\* what the retransmit port can receive
RequestDatagrams == {EncodeRequest(list) : list \in RequestLists} \cup ForeignRequests

InitServer ==
    /\ clock = 0
    /\ shutdown = FALSE
    /\ recv_failed = <<>>
    /\ rs_recv_len = 0
    /\ LocksFree
    /\ req_net = <<>>
    /\ ClientAbsent
    /\ ServerStart

NextServer ==
    \/ sv_packets_received < MaxArrivals /\ \E d \in ProducerDatagrams : FwRecv(d)
    \/ FwStore
    \/ FwForward
    \/ \E d \in RequestDatagrams : RsRecv(d) /\ UNCHANGED req_net
    \/ RsLookup
    \/ NetTakeData

SpecServer == InitServer /\ [][NextServer]_vars

\* the process may start anywhere within a second of the time() clock
InitClient ==
    /\ clock \in {0, HalfSec}
    /\ shutdown = FALSE
    /\ recv_failed = <<>>
    /\ rs_recv_len = 0
    /\ LocksFree
    /\ req_net = <<>>
    /\ hold_duration_ms \in HoldDurations
    /\ missing_packets = <<>>
    /\ cl_packets_received = 0
    /\ cl_packets_retransmitted = 0
    /\ last_seq = -1
    /\ rx_pc = "recv" /\ rx_seq = 0 /\ rx_i = 0
    /\ rq_pc = "collect"
    /\ request = <<>> /\ batch_size = 0
    /\ observed = <<>>
    /\ rx_t = 0 /\ rx_room = 0 /\ rx_new = <<>>
    /\ unrequested = {}
    /\ ServerAbsent

NextClient ==
    \/ /\ cl_packets_received < MaxRecv
       /\ \E seq \in 0..MaxSeq : RxRecv(seq) /\ UNCHANGED data_net
    \/ RxAdd
    \/ RxSetLast
    \/ cl_packets_retransmitted < MaxIssued /\ RqCollect
    \/ RqSend
    \/ RqPurge
    \/ Tick
    \/ NetLoseRequest

SpecClient == InitClient /\ [][NextClient]_vars

(***************************************************************************)
(* The client in the middle of a loss burst: its first datagram carried    *)
(* sequence number PreFill, and the gap loop from last_seq = -1 inserted   *)
(* 0 .. PreFill-1 within the first second, before the requester ran.       *)
(***************************************************************************)
BurstMissing(hold) == [j \in 1..PreFill |-> MissingPacket(j - 1, 0, hold)]

InitBurst ==
    /\ clock = 0
    /\ shutdown = FALSE
    /\ recv_failed = <<>>
    /\ rs_recv_len = 0
    /\ LocksFree
    /\ req_net = <<>>
    /\ hold_duration_ms \in HoldDurations
    /\ missing_packets = BurstMissing(hold_duration_ms)
    /\ cl_packets_received = 1
    /\ cl_packets_retransmitted = 0
    /\ last_seq = PreFill
    /\ rx_pc = "recv" /\ rx_seq = PreFill /\ rx_i = PreFill
    /\ rq_pc = "collect"
    /\ request = <<>> /\ batch_size = 0
    /\ observed = <<PreFill>>
    /\ rx_t = 0 /\ rx_room = 0 /\ rx_new = <<>>
    /\ unrequested = 0..(PreFill - 1)
    /\ ServerAbsent

NextBurst ==
    \/ /\ cl_packets_received < MaxRecv
       /\ \E seq \in (PreFill + 1)..(PreFill + 1 + MaxSeq) : RxRecv(seq) /\ UNCHANGED data_net
    \/ RxAdd
    \/ RxSetLast
    \/ cl_packets_retransmitted < MaxIssued /\ RqCollect
    \/ RqSend
    \/ RqPurge
    \/ Tick
    \/ NetLoseRequest

SpecBurst == InitBurst /\ [][NextBurst]_vars

(***************************************************************************)
(* Steps of the two client threads, as the properties below name them.     *)
(***************************************************************************)
AddStep == rx_pc = "add" /\ rx_i' = rx_i + 1
CollectStep == rq_pc = "collect" /\ rq_pc' = "send"
SendStep == rq_pc = "send" /\ rq_pc' = "sleep" /\ batch_size > 0
PurgeStep == rq_pc = "sleep" /\ rq_pc' = "collect"

LookupStep == rs_pc = "lookup" /\ rs_pc' = "recv"

\* the sequence numbers of the request in buf
Requested == [i \in 1..count |-> RequestedSeq(buf, i)]

\* s is among the last size of m arrivals
InWindow(s, m, size) == Max(0, m - size) <= s /\ s <= m - 1

C2_MissingSetBounded ==
    /\ 0 <= missing_count
    /\ missing_count <= MAX_MISSING_PACKETS

\* the set is full and the gap loop has attempted more insertions than it made
C2_Witness ==
    /\ missing_count = MAX_MISSING_PACKETS
    /\ rx_pc = "add"
    /\ Len(rx_new) < rx_i - (last_seq + 1)

(***************************************************************************)
(* C3: every request datagram the requester builds carries at most         *)
(* MAX_BATCH_SIZE (20) sequence numbers, also when the missing-set holds   *)
(* more than 20 entries at collection time.                                *)
(***************************************************************************)
C3_BatchAtMost20 ==
    /\ batch_size <= MAX_BATCH_SIZE
    /\ Len(request) <= MAX_BATCH_SIZE * IntBytes
    /\ \A k \in 1..Len(req_net) :
          /\ req_net[k][1] <= MAX_BATCH_SIZE
          /\ Len(DecodeSeqs(req_net[k])) <= MAX_BATCH_SIZE

\* a full batch was collected from a set of more than 20 entries and is on the wire
C3_Witness ==
    /\ missing_count > MAX_BATCH_SIZE
    /\ rq_pc = "sleep"
    /\ batch_size = MAX_BATCH_SIZE
    /\ req_net # <<>>
    /\ Len(DecodeSeqs(req_net[1])) = MAX_BATCH_SIZE

(***************************************************************************)
(* C4: on the first sequence the tracker ever observes, whatever its       *)
(* value, last_seq is set to that value and no entry is inserted: the      *)
(* missing-set is still empty after the first observation.                 *)
(***************************************************************************)
C4_FirstObservationInsertsNothing ==
    cl_packets_received = 1 =>
        /\ rx_new = <<>>
        /\ missing_count = 0
        /\ (rx_pc = "recv" => last_seq = rx_seq)

(***************************************************************************)
(* C5: as long as the client has observed s, s+1, s+2, ... with no gaps,   *)
(* for any starting value s, the missing-set is empty.                     *)
(***************************************************************************)
C5_InOrderKeepsMissingEmpty == InOrder(observed) => missing_count = 0

(***************************************************************************)
(* C6: when the tracker has observed seq > last_seq + 1 (after an earlier   *)
(* datagram), a gap of k sequences, the gap loop has created exactly       *)
(* min(k, remaining capacity)                                              *)
(* entries, for the lowest gap sequences in ascending order, each with     *)
(* expiration_time = detection time + hold_duration_ms, in milliseconds.   *)
(***************************************************************************)
C6_GapCreatesEntries ==
    (cl_packets_received > 1 /\ rx_pc = "add" /\ rx_i >= rx_seq /\ rx_seq > last_seq + 1) =>
        LET k == rx_seq - (last_seq + 1)
            n == Min(k, rx_room)
        IN /\ Len(rx_new) = n
           /\ \A j \in 1..Len(rx_new) :
                 /\ rx_new[j].sequence_number = last_seq + j
                 /\ rx_new[j].expiration_time = rx_t + hold_duration_ms

(***************************************************************************)
(* C7: an entry whose expiration_time <= now is removed by the purge, and  *)
(* every sequence placed in a request batch belongs to an entry whose      *)
(* expiration_time is later than the time of collection.                   *)
(***************************************************************************)
C7_NoExpiredEntryInBatch ==
    [][/\ PurgeStep =>
            \A j \in 1..Len(missing_packets') :
                missing_packets'[j].expiration_time > CurrentTime(clock)
       /\ CollectStep =>
            \A j \in 1..batch_size' :
                missing_packets[j].expiration_time > CurrentTime(clock)]_vars

(***************************************************************************)
(* C8: no request datagram containing an entry created at wall-clock time  *)
(* t with hold duration H is sent later than t + H.                        *)
(* (Only the requester removes entries, so at the send the collected       *)
(* entries are still the first batch_size entries of the array.)           *)
(***************************************************************************)
C8_NoRequestAfterHold ==
    [][SendStep =>
            \A j \in 1..batch_size :
                clock <= missing_packets[j].created + hold_duration_ms]_vars

(***************************************************************************)
(* C9, as claimed: a detected gap sequence gets an entry, and the next     *)
(* request datagram the requester sends includes it (given at most 20      *)
(* entries are tracked).                                                   *)
(***************************************************************************)
C9_NextRequestIncludesGap ==
    [][/\ (AddStep /\ missing_count < MAX_MISSING_PACKETS) =>
            missing_packets'[Len(missing_packets')].sequence_number = rx_i
       /\ (SendStep /\ missing_count <= MAX_BATCH_SIZE) =>
            unrequested \subseteq Range(DecodeSeqs(RequestDatagram(request, batch_size)))]_vars

(***************************************************************************)
(* C9, amended: a detected gap sequence gets an entry while the set has    *)
(* room, and every batch the requester collects while that entry is still  *)
(* in the missing-set includes it (given at most 20 entries are tracked).  *)
(***************************************************************************)
C9_CollectedBatchIncludesHeldGaps ==
    [][/\ (AddStep /\ missing_count < MAX_MISSING_PACKETS) =>
            missing_packets'[Len(missing_packets')].sequence_number = rx_i
       /\ (CollectStep /\ missing_count <= MAX_BATCH_SIZE) =>
            \A j \in 1..missing_count :
                missing_packets[j].sequence_number
                    \in Range(DecodeSeqs(RequestDatagram(request', batch_size')))]_vars

\* 0 then 2 were observed and the batch collected for the next request is <<1>>
C9_Witness ==
    /\ cl_packets_received = 2
    /\ rx_pc = "recv"
    /\ last_seq = 2
    /\ rq_pc = "send"
    /\ missing_count = 1
    /\ DecodeSeqs(RequestDatagram(request, batch_size)) = <<1>>

(***************************************************************************)
(* Client and server together: the producer's datagrams reach the server,  *)
(* which forwards them; a forwarded datagram reaches the client or is      *)
(* lost; the client's requests reach the server's responder or are lost.   *)
(***************************************************************************)
InitEndToEnd ==
    /\ clock = 0
    /\ shutdown = FALSE
    /\ recv_failed = <<>>
    /\ rs_recv_len = 0
    /\ LocksFree
    /\ req_net = <<>>
    /\ hold_duration_ms \in HoldDurations
    /\ missing_packets = <<>>
    /\ cl_packets_received = 0
    /\ cl_packets_retransmitted = 0
    /\ last_seq = -1
    /\ rx_pc = "recv" /\ rx_seq = 0 /\ rx_i = 0
    /\ rq_pc = "collect"
    /\ request = <<>> /\ batch_size = 0
    /\ observed = <<>>
    /\ rx_t = 0 /\ rx_room = 0 /\ rx_new = <<>>
    /\ unrequested = {}
    /\ ServerStart

NextEndToEnd ==
    \/ sv_packets_received < MaxArrivals /\ \E d \in ProducerDatagrams : FwRecv(d)
    \/ FwStore
    \/ FwForward
    \/ /\ cl_packets_received < MaxRecv
       /\ data_net # <<>> /\ RxRecv(Head(data_net).seq) /\ data_net' = Tail(data_net)
    \/ NetTakeData
    \/ RxAdd
    \/ RxSetLast
    \/ cl_packets_retransmitted < MaxIssued /\ RqCollect
    \/ RqSend
    \/ RqPurge
    \/ req_net # <<>> /\ RsRecv(Head(req_net)) /\ req_net' = Tail(req_net)
    \/ NetLoseRequest
    \/ RsLookup
    \/ Tick

SpecEndToEnd == InitEndToEnd /\ [][NextEndToEnd]_vars

(***************************************************************************)
(* C10: end to end, when the client has observed an increasing run from 0  *)
(* with gaps (0,1,3,4: 2 is missing) of datagrams the server has received, *)
(* the server sends towards the client, over the life of the missing       *)
(* entry, one retransmitted datagram per gap sequence and no more, and its *)
(* bytes are those of the original datagram: same content, same length.    *)
(***************************************************************************)
C10_OneRetransmissionOfOriginal ==
    (observed # <<>> /\ observed[1] = 0 /\ Increasing(observed)) =>
        /\ \A s \in DOMAIN retx_sent :
              s \in GapSeqs(observed) => retx_sent[s] <= 1
        /\ \A k \in 1..Len(resp_out) :
              resp_out[k].data # NULL =>
                  /\ resp_out[k].data.seq = resp_out[k].seq
                  /\ resp_out[k].len = resp_out[k].data.len


(***************************************************************************)
(* Further steps of the threads, as the properties below name them.        *)
(***************************************************************************)
\* receive_packets: last_seq = seq, the end of an iteration
SetStep == rx_pc # "recv" /\ rx_pc' = "recv"
\* receive_and_forward: the critical section, and the forwarding sendto
StoreStep == fw_pc = "store" /\ fw_pc' = "forward"
ForwardStep == fw_pc = "forward" /\ fw_pc' = "recv"

\* the sequence numbers of the batch in request[]
BatchSeqs(req, bs) == DecodeSeqs(RequestDatagram(req, bs))

(***************************************************************************)
(* C11: the entry for sequence g is destroyed when g itself is received:   *)
(* once the tracker has handled a datagram carrying g, the missing-set     *)
(* holds no entry for g, and no batch collected from then on contains g.   *)
(* (last_seq is the sequence of the latest datagram handled.)              *)
(***************************************************************************)
C11_ReceivedSequenceIsDropped ==
    [][/\ SetStep =>
            \A j \in 1..Len(missing_packets') :
                missing_packets'[j].sequence_number # rx_seq
       /\ (CollectStep /\ rx_pc = "recv" /\ observed # <<>>) =>
            last_seq \notin Range(BatchSeqs(request', batch_size'))]_vars


(***************************************************************************)
(* Locks and sends.  A step of a thread is taken under a mutex when the    *)
(* code it stands for lies between the pthread_mutex_lock and the          *)
(* pthread_mutex_unlock of that mutex; it is a send when that code calls   *)
(* sendto.                                                                 *)
(***************************************************************************)
\* client.c: the steps under missing_mutex, and the step that calls sendto
UnderMissingMutex == AddStep \/ CollectStep \/ PurgeStep
ClientSendto == SendStep
\* server.c: the steps under buffer_mutex, and the steps that call sendto
UnderBufferMutex == StoreStep \/ LookupStep
ServerSendto == ForwardStep \/ (LookupStep /\ resp_out' # <<>>)

(***************************************************************************)
(* C12: neither side calls sendto while holding the lock of its shared     *)
(* structure: no step of the client is both under missing_mutex and a      *)
(* send, no step of the server is both under buffer_mutex and a send.      *)
(***************************************************************************)
C12_NoSendUnderLock ==
    [][/\ ~(UnderMissingMutex /\ ClientSendto)
       /\ ~(UnderBufferMutex /\ ServerSendto)]_vars

(***************************************************************************)
(* C13: for each request the responder handles, packets_retransmitted      *)
(* grows by the number of requested sequences that matched a slot and were *)
(* sent.  (The counter was raised by count when the request was received.) *)
(***************************************************************************)
C13_CounterCountsMatches ==
    [][LookupStep =>
        sv_packets_retransmitted' - (sv_packets_retransmitted - count)
            = Len(Emitted(resp_out'))]_vars

\* the datagram a successful sendto call puts on the wire: the bytes of the
\* buffer it is given, in the length it is given
WireDatagram(call) == Datagram(call.data.seq, call.len)

(***************************************************************************)
(* C14: a retransmit response is wire-identical to the datagram originally *)
(* forwarded for that ordinal: the same bytes in the same length as the    *)
(* inbound datagram that was cached.                                       *)
(***************************************************************************)
C14_ResponseIsWireIdentical ==
    [][LookupStep =>
        \A k \in 1..Len(resp_out') :
            resp_out'[k].data # NULL =>
                /\ resp_out'[k].data.seq = resp_out'[k].seq
                /\ WireDatagram(resp_out'[k]) = resp_out'[k].data]_vars


(***************************************************************************)
(* The request codec alone: the client holds entries for a list of         *)
(* sequence numbers (none, a few, or more than a batch takes), its         *)
(* requester encodes and sends them, the server's responder receives the   *)
(* datagram and decodes it.                                                *)
(* The gap loop can insert every int but INT_MAX and INT_MIN.              *)
(***************************************************************************)
CodecValues == <<0, 1, 255, 256, 65536, 2147483646, -1, -2147483647>>

\* the first n values from the r-th on, going round CodecValues
CodecRun(n, r) == [j \in 1..n |-> CodecValues[((j + r) % Len(CodecValues)) + 1]]

RECURSIVE CodecTuples(_)
CodecTuples(n) ==
    IF n = 0 THEN {<<>>}
    ELSE {Append(t, v) : t \in CodecTuples(n - 1), v \in Range(CodecValues)}

\* every list of 0 .. MaxCodecLen values, and runs of every length up to
\* MaxCodecLen more than a batch takes
CodecLists ==
    UNION {CodecTuples(n) : n \in 0..MaxCodecLen}
        \cup {CodecRun(n, r) : n \in 1..(MAX_BATCH_SIZE + MaxCodecLen),
                               r \in 0..(Len(CodecValues) - 1)}

\* the datagram that revealed the last gap of list carried the next sequence number
CodecObserved(list) == IF list = <<>> THEN <<>> ELSE <<list[Len(list)] + 1>>

\* the sequence numbers the missing-set holds, in array order
HeldSeqs == [j \in 1..missing_count |-> missing_packets[j].sequence_number]

InitCodec ==
    /\ clock = 0
    /\ shutdown = FALSE
    /\ recv_failed = <<>>
    /\ rs_recv_len = 0
    /\ LocksFree
    /\ req_net = <<>>
    /\ hold_duration_ms = DefaultHold
    /\ \E list \in CodecLists :
          /\ missing_packets = [j \in 1..Len(list) |-> MissingPacket(list[j], 0, DefaultHold)]
          /\ observed = CodecObserved(list)
          /\ last_seq = (IF list = <<>> THEN -1 ELSE list[Len(list)] + 1)
          /\ unrequested = Range(list)
    /\ rx_seq = Max(last_seq, 0) /\ rx_i = Max(last_seq, 0)
    /\ cl_packets_received = Len(observed)
    /\ cl_packets_retransmitted = 0
    /\ rx_pc = "recv"
    /\ rq_pc = "collect"
    /\ request = <<>> /\ batch_size = 0
    /\ rx_t = 0 /\ rx_room = 0 /\ rx_new = <<>>
    /\ ServerStart

NextCodec ==
    \/ cl_packets_retransmitted < MaxIssued /\ RqCollect
    \/ RqSend
    \/ req_net # <<>> /\ RsRecv(Head(req_net)) /\ req_net' = Tail(req_net)

SpecCodec == InitCodec /\ [][NextCodec]_vars

(***************************************************************************)
(* C15: request codec round trip: for every ordered list of k sequence     *)
(* numbers, 1 <= k <= 20, the datagram the client encodes (count byte,     *)
(* then k four-byte big-endian values) is decoded by the responder into    *)
(* the identical ordered list: the same count, the same values in order.   *)
(***************************************************************************)
C15_CodecRoundTrip ==
    (rs_pc = "lookup" /\ missing_count <= MAX_BATCH_SIZE) =>
        /\ count = missing_count
        /\ Requested = HeldSeqs

\* a list of 20 values with the largest and the smallest has been decoded
C15_Witness ==
    /\ rs_pc = "lookup"
    /\ count = MAX_BATCH_SIZE
    /\ Requested = HeldSeqs
    /\ 2147483646 \in Range(Requested)
    /\ -2147483647 \in Range(Requested)


\* a request datagram: a count byte in 1 .. 20, then count four-byte values
WellFormedRequest(d) ==
    /\ Len(d) >= 1
    /\ d[1] \in 1..MAX_BATCH_SIZE
    /\ Len(d) = 1 + IntBytes * d[1]

(***************************************************************************)
(* C16: every request datagram the client sends has a count byte in 1..20  *)
(* and a total length of exactly 1 + 4*count bytes, and on a tick whose    *)
(* collected batch is empty no datagram is sent.                           *)
(***************************************************************************)
C16_RequestWellFormed ==
    [][(rq_pc = "send" /\ rq_pc' = "sleep") =>
        /\ batch_size = 0 => req_net' = req_net
        /\ batch_size > 0 =>
              /\ WellFormedRequest(RequestDatagram(request, batch_size))
              /\ req_net' \in {req_net, Append(req_net, RequestDatagram(request, batch_size))}
        /\ \A k \in 1..Len(req_net') : WellFormedRequest(req_net'[k])]_vars

\* more than 20 entries are held and a datagram of 20 sequence numbers, 81 bytes, is on the wire
C16_Witness ==
    /\ rq_pc = "sleep"
    /\ missing_count > MAX_BATCH_SIZE
    /\ req_net # <<>>
    /\ req_net[1][1] = MAX_BATCH_SIZE
    /\ Len(req_net[1]) = 1 + IntBytes * MAX_BATCH_SIZE


(***************************************************************************)
(* C17: the shared statistics counters of both sides (the client's         *)
(* packets_received and packets_retransmitted, the server's                *)
(* packets_received and packets_retransmitted) never decrease, whatever    *)
(* the inbound datagrams contain, a request with a count byte of           *)
(* 0x80 .. 0xFF included.                                                  *)
(***************************************************************************)
C17_CountersNeverDecrease ==
    [][/\ cl_packets_received' >= cl_packets_received
       /\ cl_packets_retransmitted' >= cl_packets_retransmitted
       /\ sv_packets_received' >= sv_packets_received
       /\ sv_packets_retransmitted' >= sv_packets_retransmitted]_vars


\* the slot that sequence number s falls on holds a packet stored as s
HoldsPacket(slots, size, s) ==
    /\ slots[BufferIndex(s, size)].data # NULL
    /\ slots[BufferIndex(s, size)].sequence_number = s

C19_FullSetRejectsSilently ==
    [][/\ (AddStep /\ missing_count = MAX_MISSING_PACKETS) =>
            /\ missing_packets' = missing_packets
            /\ rx_pc' = "add"
       /\ SetStep => last_seq' = rx_seq]_vars

\* after a gap of two with room for one: the first gap sequence took the last
\* place, the second was refused, and last_seq is the sequence observed
C19_Witness ==
    /\ rx_pc = "recv"
    /\ cl_packets_received = 2
    /\ last_seq = MAX_MISSING_PACKETS + 2
    /\ missing_count = MAX_MISSING_PACKETS
    /\ missing_packets[MAX_MISSING_PACKETS].sequence_number = MAX_MISSING_PACKETS
    /\ (MAX_MISSING_PACKETS + 1) \notin Range(HeldSeqs)


(***************************************************************************)
(* Client and server together, asked to terminate at any moment.           *)
(***************************************************************************)
NextShutdown ==
    \/ NextEndToEnd
    \/ SignalShutdown

SpecShutdown == InitEndToEnd /\ [][NextShutdown]_vars

\* a thread ends an iteration of its loop and goes round again
LoopsAgain == SetStep \/ PurgeStep \/ ForwardStep \/ LookupStep

(***************************************************************************)
(* C20: every loop observes the termination signal at its next iteration   *)
(* and exits: once termination has been signalled, no thread that ends an  *)
(* iteration goes round its loop again.                                    *)
(***************************************************************************)
C20_LoopsExitOnShutdown == [][shutdown => ~LoopsAgain]_vars

(***************************************************************************)
(* The ring buffer after m datagrams (server.c:72-80).                     *)
(***************************************************************************)
\* the ordinals the buffer holds once m datagrams have been stored
HeldOrdinals(m, size) == Max(0, m - size) .. (m - 1)

\* the slots that were ever written
OccupiedSlots(slots) == {k \in DOMAIN slots : slots[k].data # NULL}

\* the occupied slots of slots are those of the last size ordinals below m,
\* each at its index, tagged with its ordinal and holding that arrival
HoldsLastArrivals(slots, size, m) ==
    /\ OccupiedSlots(slots) = {BufferIndex(c, size) : c \in HeldOrdinals(m, size)}
    /\ \A c \in HeldOrdinals(m, size) :
          /\ slots[BufferIndex(c, size)].sequence_number = c
          /\ slots[BufferIndex(c, size)].data.seq = c

(***************************************************************************)
(* C21: after the forwarder has stored m datagrams the occupied slots hold *)
(* exactly the ordinals max(0, m-N) .. m-1, ordinal c at slot c mod N      *)
(* tagged c with the payload of the c-th arrival; a store writes the       *)
(* received datagram into the one slot it maps to and leaves every other   *)
(* slot as it was.                                                         *)
(***************************************************************************)
C21_RingBufferInvariant ==
    [][StoreStep =>
        /\ buffer'[BufferIndex(sv_seq, buffer_size)] =
               [sequence_number |-> sv_seq, data |-> recv_buf]
        /\ \A k \in DOMAIN buffer :
              k # BufferIndex(sv_seq, buffer_size) => buffer'[k] = buffer[k]
        /\ DOMAIN buffer' = DOMAIN buffer
        /\ sv_seq' = sv_seq + 1
        /\ HoldsLastArrivals(buffer', buffer_size, sv_seq')]_vars

\* the buffer has wrapped: every slot is occupied, and the slot of the latest
\* ordinal was overwritten with it while older ordinals stay in the others
C21_Witness ==
    /\ fw_pc = "forward"
    /\ sv_seq > buffer_size
    /\ buffer_size > 1
    /\ OccupiedSlots(buffer) = DOMAIN buffer
    /\ buffer[BufferIndex(sv_seq - 1, buffer_size)].sequence_number = sv_seq - 1
    /\ buffer[BufferIndex(sv_seq - 2, buffer_size)].sequence_number = sv_seq - 2

\* the forwarder takes a datagram from its socket
FwRecvStep == fw_pc = "recv" /\ fw_pc' = "store"

(***************************************************************************)
(* C22: every datagram the forwarder receives is forwarded exactly once,   *)
(* with the bytes and the length received, whatever the cache holds and    *)
(* whatever the responder does meanwhile: a receipt is followed by the     *)
(* store and then by one sendto of the received datagram (which the        *)
(* network may lose) before the next receipt, nothing alters the received  *)
(* datagram in between, and nothing else is sent to the consumer.          *)
(***************************************************************************)
C22_ForwardedExactlyOnce ==
    [][/\ ForwardStep => data_net' \in {data_net, Append(data_net, recv_buf)}
       /\ FwRecvStep => recv_buf' \in ProducerDatagrams
       /\ fw_pc # "recv" => recv_buf' = recv_buf
       /\ (fw_pc = "store" /\ fw_pc' # "store") => fw_pc' = "forward"
       /\ (fw_pc = "forward" /\ fw_pc' # "forward") => fw_pc' = "recv"
       /\ ~ForwardStep => Len(data_net') <= Len(data_net)]_vars

\* a datagram received when the cache had wrapped has been forwarded as received,
\* while the responder was looking up a request
C22_Witness ==
    /\ fw_pc = "recv"
    /\ rs_pc = "lookup"
    /\ sv_seq > buffer_size
    /\ data_net # <<>>
    /\ data_net[Len(data_net)] = recv_buf
    /\ recv_buf = Datagram(sv_seq - 1, IntBytes)

(***************************************************************************)
(* C23: after every observed datagram last_seq is that datagram's          *)
(* sequence number, also when it is lower than or equal to the previous    *)
(* last_seq (a late, duplicate or retransmitted packet), and such an       *)
(* observation inserts no entry: the gap loop runs only for a sequence     *)
(* above last_seq + 1.                                                     *)
(***************************************************************************)
C23_LastSeqFollowsEveryDatagram ==
    [][/\ SetStep => /\ last_seq' = rx_seq
                     /\ rx_seq <= last_seq => rx_new = <<>>
       /\ AddStep => rx_seq > last_seq + 1]_vars

\* 2 was observed and left entries for 0 and 1; then 1 arrived late: last_seq
\* went back to 1 and the set has the same two entries
C23_Witness ==
    /\ rx_pc = "recv"
    /\ observed = <<2, 1>>
    /\ last_seq = 1
    /\ HeldSeqs = <<0, 1>>

\* how many positions of arr hold the entry e
Occurrences(arr, e) == Cardinality({j \in DOMAIN arr : arr[j] = e})

(***************************************************************************)
(* C24: a purge run at time now (the current_time remove_expired_packets   *)
(* reads) leaves exactly the multiset of the entries that had              *)
(* expiration_time > now: every entry with expiration_time <= now is gone, *)
(* an entry moved into a vacated position included, and every other entry  *)
(* is held as many times as before.                                        *)
(***************************************************************************)
C24_PurgeKeepsExactlyUnexpired ==
    [][PurgeStep =>
        \A e \in Range(missing_packets) \cup Range(missing_packets') :
            Occurrences(missing_packets', e) =
                IF e.expiration_time > CurrentTime(clock)
                THEN Occurrences(missing_packets, e)
                ELSE 0]_vars

\* the PreFill entries of the burst expired and one entry was added a second
\* later behind them: the purge removed the expired ones, those moved forward
\* from the end included, and kept the late one, now in the first position
C24_Witness ==
    /\ rq_pc = "collect"
    /\ cl_packets_retransmitted > 0
    /\ clock >= MsPerSec
    /\ missing_count = 1
    /\ missing_packets[1].sequence_number = PreFill + 1
    /\ missing_packets[1].expiration_time > CurrentTime(clock)

(***************************************************************************)
(* C25: each batch the requester collects is exactly the first min(20, n)  *)
(* entries of the missing-set in array order, n being the number of        *)
(* entries held at that moment; neither expiry nor sequence value changes  *)
(* the order.                                                              *)
(***************************************************************************)
C25_BatchIsArrayPrefix ==
    [][CollectStep =>
        /\ batch_size' = Min(MAX_BATCH_SIZE, missing_count)
        /\ BatchSeqs(request', batch_size') =
               SubSeq(HeldSeqs, 1, Min(MAX_BATCH_SIZE, missing_count))]_vars

\* a batch collected from more than 20 entries stored in an order that is not
\* the order of their sequence numbers
C25_Witness ==
    /\ rq_pc = "send"
    /\ missing_count > MAX_BATCH_SIZE
    /\ batch_size = MAX_BATCH_SIZE
    /\ \E j \in 1..(MAX_BATCH_SIZE - 1) : HeldSeqs[j] > HeldSeqs[j + 1]
    /\ BatchSeqs(request, batch_size) = SubSeq(HeldSeqs, 1, MAX_BATCH_SIZE)

\* the requester has collected the batch of this tick and not yet purged
BetweenCollectAndPurge == rq_pc \in {"send", "sleep"}

(***************************************************************************)
(* C26: on each tick the requester collects the batch and purges the       *)
(* expired entries inside one critical section of missing_mutex: the       *)
(* tracker inserts no entry between the collection and the purge of the    *)
(* same tick.                                                              *)
(***************************************************************************)
C26_CollectAndPurgeInOneSection == [][AddStep => ~BetweenCollectAndPurge]_vars

\* the count field of the request datagram the requester hands to sendto
SentCountField == RequestDatagram(request, batch_size)[1]

NextLate ==
    \/ /\ cl_packets_received < MaxLate
       /\ \E seq \in 0..MaxSeq : RxRecv(seq) /\ UNCHANGED data_net
    \/ RxAdd
    \/ RxSetLast
    \/ cl_packets_retransmitted < MaxIssued /\ RqCollect
    \/ RqSend
    \/ RqPurge
    \/ NetLoseRequest

SpecLate == InitClient /\ [][NextLate]_vars

\* no two positions of the missing-set hold the same sequence number
NoSequenceHeldTwice ==
    \A i, j \in 1..missing_count :
        missing_packets[i].sequence_number = missing_packets[j].sequence_number => i = j

(***************************************************************************)
(* C30: no sequence number is held by the missing-set more than once at    *)
(* the same time, whatever the order of the observed sequences, an order   *)
(* that goes backwards and then forwards over the same gap included.       *)
(* Stated for the runs whose first datagram is sequence 0, so that every   *)
(* entry comes from a gap between two observed datagrams.                  *)
(***************************************************************************)
C30_NoSequenceHeldTwice ==
    (observed # <<>> /\ observed[1] = 0) => NoSequenceHeldTwice

(***************************************************************************)
(* The six threads at the grain of their mutex operations.                 *)
(***************************************************************************)
NextLocks ==
    \E t \in Threads :
        \/ LockStep(t)
        \/ LockSkip(t)

SpecLocks == InitServer /\ [][NextLocks]_vars

(***************************************************************************)
(* C29: the system is deadlock-free.  No thread enters pthread_mutex_lock  *)
(* while it holds a mutex (the stats mutex and the missing-set or buffer   *)
(* mutex are never nested); the holder of a mutex another thread waits for *)
(* is itself not waiting for a mutex; and in every state where some thread *)
(* is not in a blocking call (recvfrom, sendto, usleep), some such thread  *)
(* can take its step.                                                      *)
(***************************************************************************)
C29_DeadlockFree ==
    /\ \A t \in Threads : NextOp(t).op = "lock" => holds[t] = {}
    /\ \A t \in Threads : Cardinality(holds[t]) <= 1
    /\ \A t \in Threads :
          Waiting(t) => \E u \in Threads : NextOp(t).on \in holds[u] /\ ~Waiting(u)
    /\ (\E t \in Threads : NextOp(t).op # "io") =>
          \E t \in Threads : NextOp(t).op # "io" /\ ~Waiting(t)

(***************************************************************************)
(* recvfrom fails (client.c:80-85, server.c:61-66, 123-124).  EINTR stands *)
(* for the errors of one call, EBADF for those every later call on the     *)
(* socket meets again.  Each loop handles both with continue.              *)
(***************************************************************************)
RecvErrnos == {"EINTR", "EBADF"}

Retryable(e) == e = "EINTR"

RecvFailure(t, e) == [thread |-> t, errno |-> e]

\* client.c receive_packets: recv_len <= 0: perror, free(recv_buf), continue
RxRecvFails(e) ==
    /\ rx_pc = "recv"
    /\ Len(recv_failed) < MaxRecvErrors
    /\ recv_failed' = Append(recv_failed, RecvFailure("rx", e))
    /\ rx_pc' = LoopTo("recv")
    /\ UNCHANGED <<clock, shutdown, req_net, hold_duration_ms, missing_packets,
                   cl_packets_received, cl_packets_retransmitted, last_seq, rx_seq,
                   rx_i, rq_pc, request, batch_size, observed, rx_t, rx_room,
                   rx_new, unrequested, svars, rs_recv_len, lvars>>

\* server.c receive_and_forward: recv_len <= 0: perror, free(recv_buf), continue
FwRecvFails(e) ==
    /\ fw_pc = "recv"
    /\ Len(recv_failed) < MaxRecvErrors
    /\ recv_failed' = Append(recv_failed, RecvFailure("fw", e))
    /\ fw_pc' = LoopTo("recv")
    /\ UNCHANGED <<clock, shutdown, req_net, cvars, data_net, buffer_size, buffer,
                   sv_seq, sv_packets_received, sv_packets_retransmitted, recv_buf,
                   rs_pc, buf, count, resp_out, retx_sent, rs_recv_len, lvars>>

\* server.c handle_retransmit_requests: if (recv_len <= 0) continue
RsRecvFails(e) ==
    /\ rs_pc = "recv"
    /\ Len(recv_failed) < MaxRecvErrors
    /\ recv_failed' = Append(recv_failed, RecvFailure("rs", e))
    /\ rs_recv_len' = -1
    /\ rs_pc' = LoopTo("recv")
    /\ UNCHANGED <<clock, shutdown, req_net, cvars, data_net, buffer_size, buffer,
                   sv_seq, sv_packets_received, sv_packets_retransmitted, fw_pc,
                   recv_buf, buf, count, resp_out, retx_sent, lvars>>

\* client and server together within one half second (the clock stands
\* still), with receive calls that fail
NextRecvErrors ==
    \/ sv_packets_received < MaxArrivals /\ \E d \in ProducerDatagrams : FwRecv(d)
    \/ FwStore
    \/ FwForward
    \/ /\ cl_packets_received < MaxRecv
       /\ data_net # <<>> /\ RxRecv(Head(data_net).seq) /\ data_net' = Tail(data_net)
    \/ NetTakeData
    \/ RxAdd
    \/ RxSetLast
    \/ cl_packets_retransmitted < MaxIssued /\ RqCollect
    \/ RqSend
    \/ RqPurge
    \/ req_net # <<>> /\ RsRecv(Head(req_net)) /\ req_net' = Tail(req_net)
    \/ NetLoseRequest
    \/ RsLookup
    \/ \E e \in RecvErrnos : RxRecvFails(e)
    \/ \E e \in RecvErrnos : FwRecvFails(e)
    \/ \E e \in RecvErrnos : RsRecvFails(e)

SpecRecvErrors == InitEndToEnd /\ [][NextRecvErrors]_vars

\* a recvfrom of thread t fails in this step
RecvFailStep(t) ==
    /\ Len(recv_failed') = Len(recv_failed) + 1
    /\ recv_failed'[Len(recv_failed')].thread = t

\* the position of the receive loop of thread t
RecvLoopPc(t) == CASE t = "rx" -> rx_pc [] t = "fw" -> fw_pc [] t = "rs" -> rs_pc

\* what the protocol keeps on each side
ClientProtocolState == <<last_seq, missing_packets, cl_packets_received,
                         cl_packets_retransmitted>>
ServerProtocolState == <<buffer, sv_seq, sv_packets_received, sv_packets_retransmitted>>

(***************************************************************************)
(* C28: a receive error leaves the protocol state unchanged (client:       *)
(* last_seq, missing-set and counters; server: cache, local counter and    *)
(* counters); after an error of one datagram the loop continues, after a   *)
(* socket error that cannot be retried the receive loop terminates.        *)
(***************************************************************************)
C28_ReceiveErrorHandling ==
    [][\A t \in {"rx", "fw", "rs"} :
          RecvFailStep(t) =>
              /\ UNCHANGED <<ClientProtocolState, ServerProtocolState>>
              /\ RecvLoopPc(t)' =
                     IF Retryable(recv_failed'[Len(recv_failed')].errno)
                     THEN "recv" ELSE "exit"]_vars

(***************************************************************************)
(* C31: a sequence number the client has already received is never         *)
(* inserted into the missing-set afterwards: the gap loop adds no entry    *)
(* for a sequence that is among the datagrams observed so far.  Stated for *)
(* the runs whose first datagram is sequence 0, so that every entry comes  *)
(* from a gap between two observed datagrams.                              *)
(***************************************************************************)
C31_ReceivedIsNeverInserted ==
    [][(AddStep /\ observed[1] = 0 /\ missing_packets' # missing_packets) =>
          rx_i \notin Range(observed)]_vars

(***************************************************************************)
(* The client in a burst, under fairness: the clock advances up to the     *)
(* horizon, and the requester's thread keeps running.  usleep(1000) limits *)
(* the requester to a number of ticks per half second, hence to a number   *)
(* of requests issued by any given time.  An entry is inserted only while  *)
(* its expiry lies within the horizon.                                     *)
(***************************************************************************)
Horizon == MaxHalfSecs * HalfSec

\* the requests the requester can have issued by time c
RateBudget(c) == (1 + c \div HalfSec) * MaxRate

\* the requester starts a tick
TimelyCollect == cl_packets_retransmitted < RateBudget(clock) /\ RqCollect

InitExpiry == InitBurst /\ hold_duration_ms = DefaultHold

NextExpiry ==
    \/ /\ cl_packets_received < MaxRecv
       /\ \E seq \in (PreFill + 1)..(PreFill + 1 + MaxSeq) : RxRecv(seq) /\ UNCHANGED data_net
    \/ ExpirationTime(clock, hold_duration_ms) <= CurrentTime(Horizon) /\ RxAdd
    \/ RxSetLast
    \/ TimelyCollect
    \/ RqSend
    \/ RqPurge
    \/ Tick

\* the requester's thread is scheduled again and again (its purge is a step
\* from "sleep" to "collect", and no other step is), and the clock advances
SpecExpiry ==
    /\ InitExpiry
    /\ [][NextExpiry]_vars
    /\ WF_vars(Tick)
    /\ WF_vars(TimelyCollect)
    /\ WF_vars(RqSend)
    /\ WF_rq_pc(PurgeStep)

\* entries followed: the first and the last of the burst, one beyond the first
\* batch, and the one added behind them when the set is one short of capacity
BurstSeqs == {0, MAX_BATCH_SIZE, PreFill - 1, PreFill + 1}

(***************************************************************************)
(* C32: every entry that is inserted is eventually removed from the        *)
(* missing-set, when the requester's loop keeps running and the clock      *)
(* advances, also while the receive loop inserts new entries and the set   *)
(* is at capacity.                                                         *)
(***************************************************************************)
C32_EveryEntryEventuallyRemoved ==
    \A s \in BurstSeqs : (s \in Range(HeldSeqs)) ~> (s \notin Range(HeldSeqs))

\* the burst's entries and the entry added behind them at capacity are gone
C32_Witness ==
    /\ clock = Horizon
    /\ rq_pc = "collect"
    /\ Len(observed) = 2
    /\ rx_pc = "recv"
    /\ missing_count = 0
    /\ cl_packets_retransmitted > MAX_BATCH_SIZE

(***************************************************************************)
(* C33: under every interleaving of the forwarder and the responder, each  *)
(* sendto of the responder is given a payload buffer that the cache holds  *)
(* at that moment: never one the forwarder has released by overwriting the *)
(* slot, and never the empty pointer of a slot that was not written.       *)
(***************************************************************************)
C33_SendsOnlyStoredPayload ==
    [][LookupStep =>
          \A k \in 1..Len(resp_out') :
              /\ resp_out'[k].data # NULL
              /\ \E j \in DOMAIN buffer : buffer[j].data = resp_out'[k].data]_vars

\* the slot indices the responder computes for the request it has received
LookupIndices ==
    [i \in 1..Max(count, 0) |-> BufferIndex(RequestedSeq(buf, i), buffer_size)]

(***************************************************************************)
(* C34: for every four-byte sequence value a request datagram can carry,   *)
(* one that decodes to a negative 32-bit integer included, the slot index  *)
(* the responder computes lies in 0 .. buffer_size - 1.                    *)
(***************************************************************************)
C34_LookupIndexInRange ==
    rs_pc = "lookup" =>
        \A i \in 1..Len(LookupIndices) : LookupIndices[i] \in 0..(buffer_size - 1)

(***************************************************************************)
(* The server receiving requests whose count byte promises more sequence   *)
(* numbers than the datagram carries.  recvfrom() writes recv_len bytes of *)
(* buf and leaves the rest as it was; before any request those bytes are   *)
(* what the stack held, so the run follows a short datagram only when      *)
(* earlier requests have written the bytes its count byte reaches.         *)
(***************************************************************************)
\* a count byte n followed by no sequence number
ShortRequests == {<<n>> : n \in 1..MaxReqLen}

\* the bytes of buf the count byte of d makes the loop read
BytesRead(d) == 1 + IntBytes * Max(SignedChar(d[1]), 0)

NextShort ==
    \/ sv_packets_received < MaxArrivals /\ \E d \in ProducerDatagrams : FwRecv(d)
    \/ FwStore
    \/ FwForward
    \/ \E d \in RequestDatagrams : RsRecv(d) /\ UNCHANGED req_net
    \/ \E d \in ShortRequests :
          /\ BytesRead(d) <= Len(buf)
          /\ RsRecv(d) /\ UNCHANGED req_net
    \/ RsLookup
    \/ NetTakeData

SpecShort == InitServer /\ [][NextShort]_vars

\* the iterations of the lookup loop: i from 0 while i < count
Lookups == Max(count, 0)

(***************************************************************************)
(* C35: the responder looks up only sequence numbers carried by the        *)
(* request datagram it has just received: the number of lookups is at most *)
(* (recv_len - 1) / 4 and at most 20, whatever the count byte says, so     *)
(* bytes left in buf by an earlier request are never read as sequences.    *)
(***************************************************************************)
C35_LooksUpOnlyCarriedSequences ==
    rs_pc = "lookup" =>
        /\ Lookups <= (rs_recv_len - 1) \div IntBytes
        /\ Lookups <= MAX_BATCH_SIZE


(***************************************************************************)
(* The forwarder alone, running long enough for its arrival counter to     *)
(* pass the largest value of its width.  A store whose slot index is       *)
(* outside the array leaves the slots of the array as they were: the       *)
(* write lands outside the buffer.                                        *)
(***************************************************************************)
\* arrivals enough for one increment past SeqMax and one more store
MaxWrapArrivals == SeqMax + 2

NextWrap ==
    \/ sv_packets_received < MaxWrapArrivals /\ \E d \in ProducerDatagrams : FwRecv(d)
    \/ FwStore
    \/ FwForward
    \/ NetTakeData

SpecWrap == InitServer /\ [][NextWrap]_vars

\* C36: when the forwarder's arrival counter wraps around its width, the slot
\* index of the store still lies in 0 .. buffer_size-1 and the datagram just
\* stored is held by the cache (the window property at its newest end).
C36_WrapKeepsIndexAndWindow ==
    /\ fw_pc = "store" => BufferIndex(sv_seq, buffer_size) \in 0..(buffer_size - 1)
    /\ fw_pc = "forward" => \E j \in DOMAIN buffer : buffer[j].data = recv_buf


(***************************************************************************)
(* The accesses to the shared structures and the mutexes held around them. *)
(***************************************************************************)
\* the mutex whose section contains the accesses to structure x
LockOf(x) ==
    CASE x = "missing_set" -> "cl_missing_mutex"
      [] x = "buffer" -> "sv_buffer_mutex"
      [] x = "seq" -> "sv_buffer_mutex"

\* thread t is reading or writing structure x
Accessing(t, x) == NextOp(t).op = "access" /\ NextOp(t).on = x

\* no two threads are inside the same structure
NeverInsideTogether ==
    \A t, u \in Threads :
        \A x \in {"missing_set", "buffer", "seq"} :
            (Accessing(t, x) /\ Accessing(u, x)) => t = u

\* C37 as stated: every access to the missing-set, to the ring buffer slots
\* and to the forwarder's arrival counter is made by a thread that holds the
\* corresponding mutex, and the receive loop and the requester/responder loop
\* are never inside one of these structures at the same time.
C37_EveryAccessUnderLock ==
    /\ \A t \in Threads :
          \A x \in {"missing_set", "buffer", "seq"} :
              Accessing(t, x) => LockOf(x) \in holds[t]
    /\ NeverInsideTogether

\* C37 amended: every access to the missing-set and to the ring buffer slots
\* is made by a thread that holds the corresponding mutex, and no two threads
\* are inside one of the structures at the same time; the arrival counter is
\* accessed by the forwarder alone, with or without the buffer mutex.
C37_SharedAccessUnderLock ==
    /\ \A t \in Threads :
          \A x \in {"missing_set", "buffer"} :
              Accessing(t, x) => LockOf(x) \in holds[t]
    /\ \A t \in Threads : Accessing(t, "seq") => t = "sv_fw"
    /\ NeverInsideTogether

\* the forwarder is inside the ring buffer while the responder waits for the
\* buffer mutex, and the receive loop is inside the missing-set while the
\* requester waits for the missing-set mutex
C37_Witness ==
    /\ Accessing("sv_fw", "buffer") /\ Waiting("sv_rs")
    /\ Accessing("cl_rx", "missing_set") /\ Waiting("cl_rq")

=============================================================================
